---- MODULE Spec2Model ----
(***************************************************************************)
(* Tether base agent (Rust): plug options builders, plug definitions, the  *)
(* agent runtime (connect, check_messages, publish) and the topic          *)
(* convention helpers.                                                     *)
(*                                                                         *)
(* Two plug builders live in the sources: the one of base_agent/rs/src/    *)
(* lib.rs (field "src" = "lib") and the one of base_agent/rs/src/plugs/    *)
(* options.rs (field "src" = "plugs").  Both are modelled, each from its   *)
(* own code.                                                               *)
(*                                                                         *)
(* Strings are sequences of one-character strings, so that format! and     *)
(* split('/') are computed character by character.  Option<T> is a         *)
(* sequence of length 0 (None) or 1 (Some(x)).                             *)
(***************************************************************************)
EXTENDS Integers, Sequences, FiniteSets

VARIABLES
    agent,      \* Option<TetherAgent>: the agent's role and id
    conn,       \* the mqtt Client's state: constructed / connected / disconnected
    subscribed, \* Option<String>: the topic filter of the client's latest successful subscribe
    receiver,   \* Receiver<Option<Message>>: the inbound queue filled by the client
    builder,    \* Option<PlugOptionsBuilder>: the builder chain in progress
    chain,      \* history of the chain in progress: the latest topic(t) argument,
                \* whether retain was called, whether role/id was called after topic
    def,        \* Option<PlugDefinition>: the definition the caller holds, the one
                \* the latest build() returned; the caller lets go of it when it
                \* starts the next builder
    lastOp,     \* the latest call: its name ("create" and "chain" for the builder's
                \* methods), its outcome, its return value and the transport
                \* calls it issued
    tool,       \* the receive tool: its position in receive() and its did_work flag
    order       \* history: the number of messages the client's thread has
                \* stamped and queued, and the stamp of the message
                \* check_messages returned last

vars == <<agent, conn, subscribed, receiver, builder, chain, def, lastOp, tool, order>>

(***************************************************************************)
(* Option and strings                                                      *)
(***************************************************************************)
None == << >>

Some(x) == <<x>>

IsSome(o) == Len(o) = 1

Unwrap(o) == o[1]

UnwrapOr(o, d) == IF IsSome(o) THEN o[1] ELSE d

Slash == "/"

(***************************************************************************)
(* Bounds and input sets                                                   *)
(***************************************************************************)
MaxQueue == 2

\* The number of messages stamped in the order of their arrival.
MaxArrivals == 4

\* The longest role, id and plug name given to build_topic.
MaxLen == 2

AgentRoles == { <<"r">> }

AgentIds == { None, Some(<<"i">>) }

PlugNames == { <<"p">> }

TopicArgs == { <<"#">>, <<"a", "/", "b", "/", "p">> }

QosArgs == { 2 }

RoleArgs == { None, Some(<<"x">>) }

IdArgs == { None, Some(<<"y">>) }

InboundTopics ==
    { <<"a", "/", "b", "/", "p">>,            \* three segments
      <<"w">>,                                \* one segment
      <<"a", "/", "b", "/", "p", "/", "d">>,  \* four segments
      <<"a", "/", "/", "p">> }                \* an empty segment

Payloads == { <<1>> }

(***************************************************************************)
(* Topic convention helpers                                                *)
(***************************************************************************)
\* str::split('/'): the segments between the slashes, empty ones kept; a
\* string without a slash is its own single segment.
RECURSIVE split(_)
split(s) ==
    IF \A i \in 1..Len(s) : s[i] # Slash
    THEN <<s>>
    ELSE LET k == CHOOSE i \in 1..Len(s) :
                      s[i] = Slash /\ \A j \in 1..(i - 1) : s[j] # Slash
         IN  <<SubSeq(s, 1, k - 1)>> \o split(SubSeq(s, k + 1, Len(s)))

\* parts.get(2): the segment at index 2 when there is one.
parse_plug_name(topic) ==
    LET parts == split(topic)
    IN  IF Len(parts) >= 3 THEN Some(parts[3]) ELSE None

\* Mutant: the id is read from the first segment.
parse_agent_id_first(topic) ==
    LET parts == split(topic)
    IN  IF Len(parts) >= 1 THEN Some(parts[1]) ELSE None

\* parts.get(1): the segment at index 1 when there is one.
parse_agent_id(topic) ==
    LET parts == split(topic)
    IN  IF Len(parts) >= 2 THEN Some(parts[2]) ELSE None

\* parts.first(): the segment at index 0.
parse_agent_role(topic) ==
    LET parts == split(topic)
    IN  IF Len(parts) >= 1 THEN Some(parts[1]) ELSE None

\* Mutant: role and id change places.
build_topic_swapped(role, id, plug_name) ==
    id \o <<Slash>> \o role \o <<Slash>> \o plug_name

\* format!("{role}/{id}/{plug_name}")
build_topic(role, id, plug_name) ==
    role \o <<Slash>> \o id \o <<Slash>> \o plug_name

\* Mutant: one wildcard segment only.
default_subscribe_topic_short(plug_name) ==
    <<"+", Slash>> \o plug_name

\* format!("+/+/{plug_name}")
default_subscribe_topic(plug_name) ==
    <<"+", Slash, "+", Slash>> \o plug_name

\* ThreePartTopic::new_for_subscribe: role and id default to "+".
new_for_subscribe(role, id, plug_name) ==
    [role |-> UnwrapOr(role, <<"+">>), id |-> UnwrapOr(id, <<"+">>),
     plug_name |-> plug_name]

\* ThreePartTopic::new_for_publish: role and id default to the agent's own.
new_for_publish(role, id, plug_name, tether_agent) ==
    [role |-> UnwrapOr(role, tether_agent.role),
     id |-> UnwrapOr(id, tether_agent.id),
     plug_name |-> plug_name]

\* The wire string of a TetherOrCustomTopic: the custom string as it is, the
\* three segments joined with "/".
topic_string(tpt) ==
    IF tpt.tag = "Custom"
    THEN tpt.custom
    ELSE build_topic(tpt.tether.role, tpt.tether.id, tpt.tether.plug_name)

Custom(s) == [tag |-> "Custom", custom |-> s]

Tether(t) == [tag |-> "Tether", tether |-> t]

\* Standard publish/subscribe filter matching, as the broker applies it:
\* "+" matches exactly one segment, a final "#" all remaining segments.
RECURSIVE segments_match(_, _)
segments_match(f, t) ==
    IF f = << >> THEN t = << >>
    ELSE IF Head(f) = <<"#">> THEN Len(f) = 1
    ELSE IF t = << >> THEN FALSE
    ELSE /\ (Head(f) = <<"+">> \/ Head(f) = Head(t))
         /\ segments_match(Tail(f), Tail(t))

topic_matches(filter, topic) == segments_match(split(filter), split(topic))

(***************************************************************************)
(* Plug definitions                                                        *)
(***************************************************************************)
\* PlugDefinition::InputPlugDefinition(InputPlugDefinition { common })
InputPlugDefinition(name, topic, qos) ==
    [kind |-> "InputPlugDefinition", name |-> name, topic |-> topic,
     qos |-> qos, retain |-> None]

\* PlugDefinition::OutputPlugDefinition(OutputPlugDefinition { common, retain })
OutputPlugDefinition(name, topic, qos, retain) ==
    [kind |-> "OutputPlugDefinition", name |-> name, topic |-> topic,
     qos |-> qos, retain |-> Some(retain)]

\* InputPlugDefinition::new(name, tpt, qos) of the plugs module: qos defaults
\* to 1, the topic is the wire string of tpt.
InputPlugDefinition_new(name, tpt, qos) ==
    InputPlugDefinition(name, topic_string(tpt), UnwrapOr(qos, 1))

\* OutputPlugDefinition::new(name, tpt, qos, retain) of the plugs module: qos
\* defaults to 1, retain to false.
OutputPlugDefinition_new(name, tpt, qos, retain) ==
    OutputPlugDefinition(name, topic_string(tpt), UnwrapOr(qos, 1),
                         UnwrapOr(retain, FALSE))

IsInputDef(d) == d.kind = "InputPlugDefinition"

IsOutputDef(d) == d.kind = "OutputPlugDefinition"

(***************************************************************************)
(* The plug options builder of lib.rs                                      *)
(***************************************************************************)
\* One record shape serves both builders: plug_name and override_topic are
\* common.name and common.topic in lib.rs, whose builder has no role or id
\* override (the two fields stay None there).
lib_create_input(name) ==
    [src |-> "lib", kind |-> "InputPlugOptions", plug_name |-> name,
     qos |-> None, override_role |-> None, override_id |-> None,
     override_topic |-> None, retain |-> None]

\* create_output starts with retain: Some(false).
lib_create_output(name) ==
    [src |-> "lib", kind |-> "OutputPlugOptions", plug_name |-> name,
     qos |-> None, override_role |-> None, override_id |-> None,
     override_topic |-> None, retain |-> Some(FALSE)]

lib_qos(b, qos) == [b EXCEPT !.qos = Some(qos)]

lib_topic(b, override_topic) == [b EXCEPT !.override_topic = Some(override_topic)]

\* retain panics on an input builder: None stands for the call that never
\* returns.
lib_retain(b, should_retain) ==
    IF b.kind = "InputPlugOptions"
    THEN None
    ELSE Some([b EXCEPT !.retain = Some(should_retain)])

\* One call of the client: what was asked and whether the client answered Ok.
SubscribeCall(topic, qos, answer) ==
    [call |-> "subscribe", topic |-> topic, qos |-> qos, ok |-> answer]

\* Mutant: the definition is returned whatever the client answers.
lib_build_input_ignores_error(b, tether_agent, subscribe_ok) ==
    LET final_topic == UnwrapOr(b.override_topic,
                                default_subscribe_topic(b.plug_name))
        final_qos == UnwrapOr(b.qos, 1)
    IN  [calls |-> <<SubscribeCall(final_topic, final_qos, subscribe_ok)>>,
         ok |-> TRUE,
         def |-> Some(InputPlugDefinition(b.plug_name, final_topic, final_qos))]

\* build of an input: subscribes with the final topic and qos and returns
\* the definition only when the client answers Ok.
lib_build_input(b, tether_agent, subscribe_ok) ==
    LET final_topic == UnwrapOr(b.override_topic,
                                default_subscribe_topic(b.plug_name))
        final_qos == UnwrapOr(b.qos, 1)
    IN  [calls |-> <<SubscribeCall(final_topic, final_qos, subscribe_ok)>>,
         ok |-> subscribe_ok,
         def |-> IF subscribe_ok
                 THEN Some(InputPlugDefinition(b.plug_name, final_topic,
                                               final_qos))
                 ELSE None]

\* Mutant: an output build announces its topic to the client and fails when
\* the client does.
lib_build_output_subscribes(b, tether_agent, subscribe_ok) ==
    LET final_topic == UnwrapOr(b.override_topic,
                                build_topic(tether_agent.role, tether_agent.id,
                                            b.plug_name))
        final_qos == UnwrapOr(b.qos, 1)
    IN  [calls |-> <<SubscribeCall(final_topic, final_qos, subscribe_ok)>>,
         ok |-> subscribe_ok,
         def |-> IF subscribe_ok
                 THEN Some(OutputPlugDefinition(b.plug_name, final_topic,
                                                final_qos,
                                                UnwrapOr(b.retain, FALSE)))
                 ELSE None]

\* build of an output: no call of the client, always Ok.
lib_build_output(b, tether_agent, subscribe_ok) ==
    LET final_topic == UnwrapOr(b.override_topic,
                                build_topic(tether_agent.role, tether_agent.id,
                                            b.plug_name))
        final_qos == UnwrapOr(b.qos, 1)
    IN  [calls |-> << >>,
         ok |-> TRUE,
         def |-> Some(OutputPlugDefinition(b.plug_name, final_topic, final_qos,
                                           UnwrapOr(b.retain, FALSE)))]

lib_build(b, tether_agent, subscribe_ok) ==
    IF b.kind = "InputPlugOptions"
    THEN lib_build_input(b, tether_agent, subscribe_ok)
    ELSE lib_build_output(b, tether_agent, subscribe_ok)

(***************************************************************************)
(* The plug options builder of plugs/options.rs                            *)
(***************************************************************************)
opt_create_input(name) ==
    [src |-> "plugs", kind |-> "InputPlugOptions", plug_name |-> name,
     qos |-> None, override_role |-> None, override_id |-> None,
     override_topic |-> None, retain |-> None]

opt_create_output(name) ==
    [src |-> "plugs", kind |-> "OutputPlugOptions", plug_name |-> name,
     qos |-> None, override_role |-> None, override_id |-> None,
     override_topic |-> None, retain |-> None]

opt_qos(b, qos) == [b EXCEPT !.qos = Some(qos)]

\* role: ignored (an error is logged) when a topic override is present.
opt_role(b, role) ==
    IF IsSome(b.override_topic)
    THEN b
    ELSE [b EXCEPT !.override_role = role]

\* id: ignored (an error is logged) when a topic override is present.
opt_id(b, id) ==
    IF IsSome(b.override_topic)
    THEN b
    ELSE [b EXCEPT !.override_id = id]

\* name: the plug name part of the subscribe topic; no name given leaves the
\* builder's plug name in place. Ignored when a topic override is present.
opt_name(b, name) ==
    IF IsSome(b.override_topic) \/ name = None
    THEN b
    ELSE [b EXCEPT !.plug_name = Unwrap(name)]

\* TryInto::<ThreePartTopic>: the three segments of a topic that splits into
\* exactly three non-empty ones, None otherwise.
ThreePartTopic_try_from(topic) ==
    LET parts == split(topic)
    IN  IF Len(parts) = 3 /\ \A i \in 1..3 : parts[i] # << >>
        THEN Some(parts)
        ELSE None

\* topic: the level of the line it logs about the validation.
opt_topic_log(override_topic) ==
    IF IsSome(ThreePartTopic_try_from(override_topic)) THEN "info" ELSE "warn"

\* Mutant: an override that fails the validation is not stored.
opt_topic_validated(b, override_topic) ==
    IF IsSome(ThreePartTopic_try_from(override_topic))
    THEN [b EXCEPT !.override_topic = Some(override_topic)]
    ELSE b

\* Mutant: a topic override already present is kept.
opt_topic_keeps_first(b, override_topic) ==
    IF IsSome(b.override_topic)
    THEN b
    ELSE [b EXCEPT !.override_topic = Some(override_topic)]

\* topic: the three-part validation only logs; the override is always stored.
opt_topic(b, override_topic) ==
    [b EXCEPT !.override_topic = Some(override_topic)]

\* retain: on an input builder an error is logged and the builder is returned
\* as it is.
opt_retain(b, should_retain) ==
    IF b.kind = "InputPlugOptions"
    THEN Some(b)
    ELSE Some([b EXCEPT !.retain = Some(should_retain)])

opt_build(b, tether_agent, subscribe_ok) ==
    IF b.kind = "InputPlugOptions"
    THEN LET tpt == IF IsSome(b.override_topic)
                    THEN Custom(Unwrap(b.override_topic))
                    ELSE Tether(new_for_subscribe(b.override_role,
                                                  b.override_id, b.plug_name))
             plug_definition == InputPlugDefinition_new(b.plug_name, tpt, b.qos)
         IN  [calls |-> <<SubscribeCall(plug_definition.topic,
                                        plug_definition.qos, subscribe_ok)>>,
              ok |-> subscribe_ok,
              def |-> IF subscribe_ok THEN Some(plug_definition) ELSE None]
    ELSE LET tpt == IF IsSome(b.override_topic)
                    THEN Custom(Unwrap(b.override_topic))
                    ELSE Tether(new_for_publish(b.override_role,
                                                b.override_id, b.plug_name,
                                                tether_agent))
             plug_definition == OutputPlugDefinition_new(b.plug_name, tpt,
                                                         b.qos, b.retain)
         IN  [calls |-> << >>, ok |-> TRUE, def |-> Some(plug_definition)]

(***************************************************************************)
(* The agent runtime of lib.rs                                             *)
(***************************************************************************)
DEFAULT_ID == <<"a", "n", "y">>

ConnectCall(answer) == [call |-> "connect", ok |-> answer]

PublishCall(topic, payload, retained, qos, answer) ==
    [call |-> "publish", topic |-> topic, payload |-> payload,
     retained |-> retained, qos |-> qos, ok |-> answer]

\* The index of the first Some entry of the queue, 0 when there is none.
first_some(q) ==
    IF \E i \in 1..Len(q) : IsSome(q[i])
    THEN CHOOSE i \in 1..Len(q) :
             IsSome(q[i]) /\ \A j \in 1..(i - 1) : ~IsSome(q[j])
    ELSE 0

\* Mutant: the newest message is returned, and only it leaves the queue.
check_messages_newest(q) ==
    LET k == IF \A i \in 1..Len(q) : q[i] = None
             THEN 0
             ELSE CHOOSE i \in 1..Len(q) :
                      q[i] # None /\ \A j \in (i + 1)..Len(q) : q[j] = None
    IN  IF k = 0
        THEN [receiver |-> << >>, ret |-> None, taken |-> Len(q)]
        ELSE LET message == Unwrap(q[k])
                 plug_name == parse_plug_name(message.topic)
             IN  [receiver |-> SubSeq(q, 1, k - 1) \o SubSeq(q, k + 1, Len(q)),
                  ret |-> IF IsSome(plug_name)
                          THEN Some(<<Unwrap(plug_name), message>>)
                          ELSE None,
                  taken |-> 1]

\* Mutant: the first message is returned and the whole queue is emptied.
check_messages_drains(q) ==
    LET k == first_some(q)
    IN  IF k = 0
        THEN [receiver |-> << >>, ret |-> None, taken |-> Len(q)]
        ELSE LET message == Unwrap(q[k])
                 plug_name == parse_plug_name(message.topic)
             IN  [receiver |-> << >>,
                  ret |-> IF IsSome(plug_name)
                          THEN Some(<<Unwrap(plug_name), message>>)
                          ELSE None,
                  taken |-> Len(q)]

\* check_messages: receiver.try_iter().find_map(|m| m) takes entries off the
\* queue up to and including the first Some(message), or all of them when
\* there is none; the message is returned with its plug name when
\* parse_plug_name finds one, and None is returned otherwise.
check_messages(q) ==
    LET k == first_some(q)
    IN  IF k = 0
        THEN [receiver |-> << >>, ret |-> None, taken |-> Len(q)]
        ELSE LET message == Unwrap(q[k])
                 plug_name == parse_plug_name(message.topic)
             IN  [receiver |-> SubSeq(q, k + 1, Len(q)),
                  ret |-> IF IsSome(plug_name)
                          THEN Some(<<Unwrap(plug_name), message>>)
                          ELSE None,
                  taken |-> k]

\* Mutant: no check of the definition's variant.
publish_any_definition(plug_definition, payload, send_ok) ==
    [outcome |-> IF send_ok THEN "ok" ELSE "err",
     calls |-> <<PublishCall(plug_definition.topic, UnwrapOr(payload, << >>),
                             UnwrapOr(plug_definition.retain, FALSE),
                             plug_definition.qos, send_ok)>>]

\* Mutant: the message goes out with the default qos and retain flag, not
\* the definition's.
publish_default_delivery(plug_definition, payload, send_ok) ==
    IF IsInputDef(plug_definition)
    THEN [outcome |-> "panic", calls |-> << >>]
    ELSE [outcome |-> IF send_ok THEN "ok" ELSE "err",
          calls |-> <<PublishCall(plug_definition.topic,
                                  UnwrapOr(payload, << >>), FALSE, 1,
                                  send_ok)>>]

\* publish: panics on an input definition; otherwise hands one message to
\* client.publish and returns Ok or the client's error.
publish(plug_definition, payload, send_ok) ==
    IF IsInputDef(plug_definition)
    THEN [outcome |-> "panic", calls |-> << >>]
    ELSE [outcome |-> IF send_ok THEN "ok" ELSE "err",
          calls |-> <<PublishCall(plug_definition.topic,
                                  UnwrapOr(payload, << >>),
                                  Unwrap(plug_definition.retain),
                                  plug_definition.qos, send_ok)>>]

\* rmp_serde::to_vec_named: the bytes of a value that can be encoded.
to_vec_named(data) == IF data.encodable THEN Some(data.bytes) ELSE None

\* Mutant: a value that cannot be encoded is published as an empty payload.
encode_and_publish_unencoded(plug_definition, data, send_ok) ==
    publish(plug_definition, to_vec_named(data), send_ok)

\* encode_and_publish: publish is called only with an encoded payload.
encode_and_publish(plug_definition, data, send_ok) ==
    IF IsSome(to_vec_named(data))
    THEN publish(plug_definition, to_vec_named(data), send_ok)
    ELSE [outcome |-> "encode_err", calls |-> << >>]

\* Mutant: an unspecified qos becomes 0.
publish_raw_qos0(topic, payload, qos, retained, send_ok) ==
    [outcome |-> IF send_ok THEN "ok" ELSE "err",
     calls |-> <<PublishCall(topic, payload, UnwrapOr(retained, FALSE),
                             UnwrapOr(qos, 0), send_ok)>>]

\* publish_raw: one message of the given topic and payload, retained
\* unwrap_or(false), qos unwrap_or(1), handed to client.publish; Ok or the
\* client's error.
publish_raw(topic, payload, qos, retained, send_ok) ==
    [outcome |-> IF send_ok THEN "ok" ELSE "err",
     calls |-> <<PublishCall(topic, payload, UnwrapOr(retained, FALSE),
                             UnwrapOr(qos, 1), send_ok)>>]

Values == { [encodable |-> TRUE, bytes |-> <<1>>],
            [encodable |-> FALSE, bytes |-> << >>] }

(***************************************************************************)
(* State machine                                                           *)
(***************************************************************************)
\* args: the arguments of the call (the options of an agent build, the
\* payload or value of a publish); taken: the number of queue entries a
\* check_messages took; log: the level of the line a topic() call logged.
Op(op, outcome, ret, calls) ==
    [op |-> op, args |-> None, outcome |-> outcome, ret |-> ret,
     calls |-> calls, taken |-> 0, log |-> None]

\* No message stamped, none returned.
NoOrder == [arrived |-> 0, returned |-> 0]

\* The history after a check_messages: when messages are stamped, the stamp
\* of the message it returned.
note_returned(o, ret) ==
    IF o.arrived > 0 /\ IsSome(ret)
    THEN [o EXCEPT !.returned = Unwrap(ret)[2].payload[1]]
    ELSE o

\* The receive tool before receive() is called.
ToolOff == [pc |-> "off", did_work |-> FALSE]

NoChain == [topic |-> None, retain |-> FALSE, shadowed |-> FALSE]

Init ==
    /\ agent = None
    /\ conn = "constructed"
    /\ subscribed = None
    /\ receiver = << >>
    /\ builder = None
    /\ chain = NoChain
    /\ def = None
    /\ lastOp = Op("init", "ok", None, << >>)
    /\ tool = ToolOff
    /\ order = NoOrder

\* A panic ends the program.
Running == lastOp.outcome # "panic"

\* What the client may answer to subscribe and publish: an error when it is
\* not connected.
ClientAnswers == IF conn = "connected" THEN BOOLEAN ELSE {FALSE}

\* Mutant: a new options builder with auto_connect off.
TetherAgentOptionsBuilder_new_manual == [auto_connect |-> FALSE]

\* TetherAgentOptionsBuilder::new: auto_connect starts true.
TetherAgentOptionsBuilder_new == [auto_connect |-> TRUE]

\* TetherAgentOptionsBuilder::auto_connect.
auto_connect(options, should_auto_connect) ==
    [options EXCEPT !.auto_connect = should_auto_connect]

\* Mutant: a refused connect is tried a second time.
connect_retries(c, connect_ok) ==
    IF connect_ok
    THEN [outcome |-> "ok", calls |-> <<ConnectCall(TRUE)>>, conn |-> "connected"]
    ELSE [outcome |-> "ok", calls |-> <<ConnectCall(FALSE), ConnectCall(TRUE)>>,
          conn |-> "connected"]

\* TetherAgent::connect on a client in state c: one client.connect, whose
\* answer is returned.
connect(c, connect_ok) ==
    [outcome |-> IF connect_ok THEN "ok" ELSE "err",
     calls |-> <<ConnectCall(connect_ok)>>,
     conn |-> IF connect_ok THEN "connected" ELSE c]

\* The auto_connect call made on the options builder, if any.
AutoConnectArgs == { None, Some(TRUE), Some(FALSE) }

\* TetherAgentOptionsBuilder::build: creates the client and the receiver and,
\* with auto_connect, connects; a failed connect returns the error and no agent.
\* args: the id, the auto_connect field and the auto_connect call.
AgentBuild(role, id, auto, connect_ok) ==
    /\ Running
    /\ agent = None
    /\ LET a == [role |-> role, id |-> UnwrapOr(id, DEFAULT_ID)]
           options == IF IsSome(auto)
                      THEN auto_connect(TetherAgentOptionsBuilder_new,
                                        Unwrap(auto))
                      ELSE TetherAgentOptionsBuilder_new
           r == connect("constructed", connect_ok)
       IN  IF options.auto_connect
           THEN /\ agent' = IF r.outcome = "ok" THEN Some(a) ELSE None
                /\ conn' = r.conn
                /\ lastOp' = [Op("agent_build", r.outcome, None, r.calls)
                              EXCEPT !.args =
                                  Some(<<id, options.auto_connect, auto>>)]
           ELSE /\ agent' = Some(a)
                /\ conn' = "constructed"
                /\ lastOp' = [Op("agent_build", "ok", None, << >>)
                              EXCEPT !.args =
                                  Some(<<id, options.auto_connect, auto>>)]
    /\ receiver' = << >>
    /\ subscribed' = None
    /\ UNCHANGED <<builder, chain, def, tool, order>>

\* TetherAgent::connect: one client.connect; clean_session(true) starts a
\* session without the subscriptions of an earlier one.
Connect(connect_ok) ==
    /\ Running
    /\ IsSome(agent)
    /\ LET r == connect(conn, connect_ok)
       IN  /\ conn' = r.conn
           /\ subscribed' = IF r.conn = "connected" /\ conn # "connected"
                            THEN None ELSE subscribed
           /\ lastOp' = Op("connect", r.outcome, None, r.calls)
    /\ UNCHANGED <<agent, receiver, builder, chain, def, tool, order>>

\* TetherAgent::is_connected: the client's own answer, no other call.
IsConnected ==
    /\ Running
    /\ IsSome(agent)
    /\ lastOp' = Op("is_connected", "ok", Some(conn = "connected"), << >>)
    /\ UNCHANGED <<agent, conn, subscribed, receiver, builder, chain, def, tool, order>>

\* The client's background thread reports a lost connection: a None entry on
\* the queue.
ConnectionLost ==
    /\ Running
    /\ conn = "connected"
    /\ Len(receiver) < MaxQueue
    /\ conn' = "disconnected"
    /\ receiver' = Append(receiver, None)
    /\ lastOp' = Op("connection_lost", "ok", None, << >>)
    /\ UNCHANGED <<agent, subscribed, builder, chain, def, tool, order>>

\* The client's background thread queues a message the broker delivered for
\* the subscription.
Deliver(topic, payload) ==
    /\ Running
    /\ conn = "connected"
    /\ IsSome(subscribed)
    /\ topic_matches(Unwrap(subscribed), topic)
    /\ Len(receiver) < MaxQueue
    /\ receiver' = Append(receiver, Some([topic |-> topic, payload |-> payload]))
    /\ lastOp' = Op("deliver", "ok", None, << >>)
    /\ UNCHANGED <<agent, conn, subscribed, builder, chain, def, tool, order>>

\* The same, with the message stamped by its place in the order of arrival:
\* its payload is the number of messages queued so far, itself included.
Enqueue(topic) ==
    /\ Running
    /\ conn = "connected"
    /\ IsSome(subscribed)
    /\ topic_matches(Unwrap(subscribed), topic)
    /\ Len(receiver) < MaxQueue
    /\ order.arrived < MaxArrivals
    /\ receiver' = Append(receiver, Some([topic |-> topic,
                                          payload |-> <<order.arrived + 1>>]))
    /\ order' = [order EXCEPT !.arrived = @ + 1]
    /\ lastOp' = Op("deliver", "ok", None, << >>)
    /\ UNCHANGED <<agent, conn, subscribed, builder, chain, def, tool>>

CreateInput(src, name) ==
    /\ Running
    /\ builder = None
    /\ builder' = Some(IF src = "lib" THEN lib_create_input(name)
                                      ELSE opt_create_input(name))
    /\ chain' = NoChain
    /\ lastOp' = Op("create", "ok", None, << >>)
    /\ def' = None
    /\ UNCHANGED <<agent, conn, subscribed, receiver, tool, order>>

CreateOutput(src, name) ==
    /\ Running
    /\ builder = None
    /\ builder' = Some(IF src = "lib" THEN lib_create_output(name)
                                      ELSE opt_create_output(name))
    /\ chain' = NoChain
    /\ lastOp' = Op("create", "ok", None, << >>)
    /\ def' = None
    /\ UNCHANGED <<agent, conn, subscribed, receiver, tool, order>>

Qos(qos) ==
    /\ Running
    /\ IsSome(builder)
    /\ LET b == Unwrap(builder)
       IN  builder' = Some(IF b.src = "lib" THEN lib_qos(b, qos)
                                            ELSE opt_qos(b, qos))
    /\ lastOp' = Op("chain", "ok", None, << >>)
    /\ UNCHANGED <<agent, conn, subscribed, receiver, chain, def, tool, order>>

Role(role) ==
    /\ Running
    /\ IsSome(builder)
    /\ Unwrap(builder).src = "plugs"
    /\ builder' = Some(opt_role(Unwrap(builder), role))
    /\ chain' = [chain EXCEPT !.shadowed = @ \/ IsSome(chain.topic)]
    /\ lastOp' = Op("chain", "ok", None, << >>)
    /\ UNCHANGED <<agent, conn, subscribed, receiver, def, tool, order>>

Id(id) ==
    /\ Running
    /\ IsSome(builder)
    /\ Unwrap(builder).src = "plugs"
    /\ builder' = Some(opt_id(Unwrap(builder), id))
    /\ chain' = [chain EXCEPT !.shadowed = @ \/ IsSome(chain.topic)]
    /\ lastOp' = Op("chain", "ok", None, << >>)
    /\ UNCHANGED <<agent, conn, subscribed, receiver, def, tool, order>>

Topic(override_topic) ==
    /\ Running
    /\ IsSome(builder)
    /\ LET b == Unwrap(builder)
       IN  builder' = Some(IF b.src = "lib" THEN lib_topic(b, override_topic)
                                            ELSE opt_topic(b, override_topic))
    /\ chain' = [chain EXCEPT !.topic = Some(override_topic)]
    /\ lastOp' = [Op("chain", "ok", None, << >>)
                  EXCEPT !.log = IF Unwrap(builder).src = "lib"
                                 THEN None
                                 ELSE Some(opt_topic_log(override_topic))]
    /\ UNCHANGED <<agent, conn, subscribed, receiver, def, tool, order>>

\* retain: the builder it returns, or a panic and no builder.
Retain(should_retain) ==
    /\ Running
    /\ IsSome(builder)
    /\ LET b == Unwrap(builder)
           r == IF b.src = "lib" THEN lib_retain(b, should_retain)
                                 ELSE opt_retain(b, should_retain)
       IN  /\ builder' = r
           /\ lastOp' = Op("chain", IF IsSome(r) THEN "ok" ELSE "panic",
                           None, << >>)
    /\ chain' = [chain EXCEPT !.retain = TRUE]
    /\ UNCHANGED <<agent, conn, subscribed, receiver, def, tool, order>>

\* build consumes the builder; the caller keeps the definition of an Ok.
Build(subscribe_ok) ==
    /\ Running
    /\ IsSome(builder)
    /\ IsSome(agent)
    /\ LET b == Unwrap(builder)
           r == IF b.src = "lib"
                THEN lib_build(b, Unwrap(agent), subscribe_ok)
                ELSE opt_build(b, Unwrap(agent), subscribe_ok)
       IN  /\ def' = IF r.ok THEN r.def ELSE def
           /\ subscribed' = IF r.ok /\ r.calls # << >>
                            THEN Some(r.calls[1].topic)
                            ELSE subscribed
           /\ lastOp' = Op("build", IF r.ok THEN "ok" ELSE "err", r.def, r.calls)
    /\ builder' = None
    /\ UNCHANGED <<agent, conn, receiver, chain, tool, order>>

CheckMessages ==
    /\ Running
    /\ IsSome(agent)
    /\ LET r == check_messages(receiver)
       IN  /\ receiver' = r.receiver
           /\ lastOp' = [Op("check_messages", "ok", r.ret, << >>)
                         EXCEPT !.taken = r.taken]
           /\ order' = note_returned(order, r.ret)
    /\ UNCHANGED <<agent, conn, subscribed, builder, chain, def, tool>>

Publish(payload, send_ok) ==
    /\ Running
    /\ IsSome(agent)
    /\ IsSome(def)
    /\ LET r == publish(Unwrap(def), payload, send_ok)
       IN  lastOp' = [Op("publish", r.outcome, None, r.calls)
                      EXCEPT !.args = Some(<<payload>>)]
    /\ UNCHANGED <<agent, conn, subscribed, receiver, builder, chain, def, tool, order>>

EncodeAndPublish(data, send_ok) ==
    /\ Running
    /\ IsSome(agent)
    /\ IsSome(def)
    /\ LET r == encode_and_publish(Unwrap(def), data, send_ok)
       IN  lastOp' = [Op("encode_and_publish", r.outcome, None, r.calls)
                      EXCEPT !.args = Some(<<data>>)]
    /\ UNCHANGED <<agent, conn, subscribed, receiver, builder, chain, def, tool, order>>

\* Mutant: set_role leaves the role as it was.
set_role_keeps(a, role) == a

\* TetherAgent::set_role and set_id: the agent's own fields.
set_role(a, role) == [a EXCEPT !.role = role]

set_id(a, id) == [a EXCEPT !.id = id]

SetRole(role) ==
    /\ Running
    /\ IsSome(agent)
    /\ agent' = Some(set_role(Unwrap(agent), role))
    /\ lastOp' = [Op("set_role", "ok", None, << >>)
                  EXCEPT !.args = Some(<<role>>)]
    /\ UNCHANGED <<conn, subscribed, receiver, builder, chain, def, tool, order>>

SetId(id) ==
    /\ Running
    /\ IsSome(agent)
    /\ agent' = Some(set_id(Unwrap(agent), id))
    /\ lastOp' = [Op("set_id", "ok", None, << >>)
                  EXCEPT !.args = Some(<<id>>)]
    /\ UNCHANGED <<conn, subscribed, receiver, builder, chain, def, tool, order>>

\* Mutant: a write through the mutable reference also sets the retain flag.
common_mut_retain(plug_definition, field, value) ==
    [plug_definition EXCEPT ![field] = value, !.retain = Some(TRUE)]

\* PlugDefinition::common_mut: a mutable reference to the common part, whose
\* fields name, topic and qos are public; the holder writes one of them.
common_mut(plug_definition, field, value) ==
    [plug_definition EXCEPT ![field] = value]

\* The writes a holder makes through common_mut.
CommonMutWrites ==
    { <<"name", <<"n">>>>, <<"topic", <<"z">>>>, <<"qos", 0>> }

CommonMut(field, value) ==
    /\ Running
    /\ IsSome(def)
    /\ def' = Some(common_mut(Unwrap(def), field, value))
    /\ lastOp' = Op("common_mut", "ok", None, << >>)
    /\ UNCHANGED <<agent, conn, subscribed, receiver, builder, chain, tool, order>>

\* PlugDefinition::common, name and topic: shared references, read only.
Accessors ==
    /\ Running
    /\ IsSome(def)
    /\ lastOp' = Op("accessors", "ok",
                    Some(<<Unwrap(def).name, Unwrap(def).topic,
                           Unwrap(def).qos>>), << >>)
    /\ UNCHANGED <<agent, conn, subscribed, receiver, builder, chain, def, tool, order>>

\* The roles and ids given to set_role and set_id.
SetRoleArgs == { <<"s">> }

SetIdArgs == { <<"j">> }

\* The characters of a topic part, and the parts of up to MaxLen characters.
TopicChars == { "a", Slash }

TopicParts == UNION { [1..n -> TopicChars] : n \in 0..MaxLen }

\* A call of build_topic; the topic it returns is kept for parsing.
BuildTopic(role, id, plug_name) ==
    /\ Running
    /\ lastOp' = [Op("build_topic", "ok",
                      Some(build_topic(role, id, plug_name)), << >>)
                  EXCEPT !.args = Some(<<role, id, plug_name>>)]
    /\ UNCHANGED <<agent, conn, subscribed, receiver, builder, chain, def, tool, order>>

\* The three parse functions applied to the topic build_topic returned.
ParseTopic ==
    /\ Running
    /\ lastOp.op = "build_topic"
    /\ LET topic == Unwrap(lastOp.ret)
       IN  lastOp' = [Op("parse_topic", "ok",
                         Some(<<parse_agent_role(topic), parse_agent_id(topic),
                                parse_plug_name(topic)>>), << >>)
                     EXCEPT !.args = lastOp.args]
    /\ UNCHANGED <<agent, conn, subscribed, receiver, builder, chain, def, tool, order>>

PublishRaw(topic, payload, qos, retained, send_ok) ==
    /\ Running
    /\ IsSome(agent)
    /\ LET r == publish_raw(topic, payload, qos, retained, send_ok)
       IN  lastOp' = [Op("publish_raw", r.outcome, None, r.calls)
                      EXCEPT !.args = Some(<<topic, payload, qos, retained>>)]
    /\ UNCHANGED <<agent, conn, subscribed, receiver, builder, chain, def, tool, order>>

\* The arguments given to publish_raw: a one-segment topic and a three-part
\* one, an empty payload and one byte, each option absent and present.
RawTopics == { <<"w">>, <<"a", "/", "b", "/", "p">> }

RawPayloads == { << >>, <<1>> }

RawQosArgs == { None, Some(0), Some(2) }

RawRetainedArgs == { None, Some(FALSE), Some(TRUE) }

(***************************************************************************)
(* The receive tool of tether_receive.rs                                   *)
(***************************************************************************)
\* The plug name the tool gives to create_input, and its default topic.
ALL == <<"a", "l", "l">>

HASH == <<"#">>

\* receive, the builder chain chosen from the options: the fragments when at
\* least one is given, the custom topic or "#" otherwise.
receive_input_def(options) ==
    IF \/ IsSome(options.subscribe_id)
       \/ IsSome(options.subscribe_role)
       \/ IsSome(options.subscribe_plug)
    THEN opt_name(opt_id(opt_role(opt_create_input(ALL),
                                  options.subscribe_role),
                         options.subscribe_id),
                  options.subscribe_plug)
    ELSE opt_topic(opt_create_input(ALL),
                   UnwrapOr(options.subscribe_topic, HASH))

\* rmp_serde::from_slice::<rmpv::Value>: the first MessagePack value of the
\* bytes and the bytes after it, None when the bytes do not hold one. The
\* formats of the payloads delivered here: positive fixint (0x00-0x7f),
\* fixmap (0x80-0x8f), nil (0xc0), the unused 0xc1, bin 8 (0xc4).
RECURSIVE read_value(_)
RECURSIVE read_entries(_, _)
read_value(bytes) ==
    IF bytes = << >> THEN None
    ELSE LET b == Head(bytes)
         IN  IF b < 128
             THEN Some([value |-> [type |-> "int", int |-> b, entries |-> << >>],
                        rest |-> Tail(bytes)])
             ELSE IF b < 144
             THEN read_entries(Tail(bytes), b - 128)
             ELSE IF b = 192
             THEN Some([value |-> [type |-> "nil", int |-> 0, entries |-> << >>],
                        rest |-> Tail(bytes)])
             ELSE IF b = 196 /\ Len(bytes) >= 2 /\ Len(bytes) >= 2 + bytes[2]
             THEN Some([value |-> [type |-> "bin", int |-> bytes[2],
                                   entries |-> << >>],
                        rest |-> SubSeq(bytes, 3 + bytes[2], Len(bytes))])
             ELSE None

\* The n key/value pairs of a map.
read_entries(bytes, n) ==
    IF n = 0
    THEN Some([value |-> [type |-> "map", int |-> 0, entries |-> << >>],
               rest |-> bytes])
    ELSE LET key == read_value(bytes)
         IN  IF key = None THEN None
             ELSE LET val == read_value(Unwrap(key).rest)
                  IN  IF val = None THEN None
                      ELSE LET more == read_entries(Unwrap(val).rest, n - 1)
                           IN  IF more = None THEN None
                               ELSE Some([value |->
                                              [type |-> "map", int |-> 0,
                                               entries |->
                                                   << <<Unwrap(key).value,
                                                        Unwrap(val).value>> >>
                                                   \o Unwrap(more).value.entries],
                                          rest |-> Unwrap(more).rest])

from_slice(bytes) ==
    LET r == read_value(bytes)
    IN  IF r = None THEN None ELSE Some(Unwrap(r).value)

\* serde_json::to_string of a decoded value: the JSON text, or None for the
\* error serde_json returns on a map key that is neither a string nor a
\* number. Integers below ten are one digit; binary data is not in a payload
\* that decodes.
Digits == <<"0", "1", "2", "3", "4", "5", "6", "7", "8", "9">>

RECURSIVE to_string(_)
RECURSIVE entries_to_string(_)
to_string(value) ==
    IF value.type = "int" /\ value.int < 10 THEN Some(<<Digits[value.int + 1]>>)
    ELSE IF value.type = "nil" THEN Some(<<"n", "u", "l", "l">>)
    ELSE IF value.type = "map"
    THEN LET inner == entries_to_string(value.entries)
         IN  IF inner = None THEN None
             ELSE Some(<<"{">> \o Unwrap(inner) \o <<"}">>)
    ELSE None

entries_to_string(entries) ==
    IF entries = << >> THEN Some(<< >>)
    ELSE LET key == Head(entries)[1]
             val == to_string(Head(entries)[2])
             more == entries_to_string(Tail(entries))
         IN  IF key.type # "int" \/ to_string(key) = None
                \/ val = None \/ more = None
             THEN None
             ELSE Some(<<"'">> \o Unwrap(to_string(key)) \o <<"'", ":">>
                       \o Unwrap(val)
                       \o (IF Unwrap(more) = << >> THEN << >> ELSE <<",">>)
                       \o Unwrap(more))

\* String::from_utf8: whether the bytes are UTF-8, for the one-byte and
\* two-byte forms; every other lead byte here is an invalid one.
RECURSIVE from_utf8_ok(_)
from_utf8_ok(bytes) ==
    IF bytes = << >> THEN TRUE
    ELSE IF Head(bytes) < 128 THEN from_utf8_ok(Tail(bytes))
    ELSE IF /\ Head(bytes) >= 194 /\ Head(bytes) <= 223
            /\ Len(bytes) >= 2 /\ bytes[2] >= 128 /\ bytes[2] <= 191
    THEN from_utf8_ok(SubSeq(bytes, 3, Len(bytes)))
    ELSE FALSE

OnMessage(plug_name, message, decoded) ==
    [call |-> "on_message", plug_name |-> plug_name, message |-> message,
     decoded |-> decoded]

\* The body of the while loop for one message check_messages returned: the
\* callbacks made, the level of the line logged about a payload that did not
\* decode, and a panic when expect meets the error of to_string.
receive_message(plug_name, message) ==
    LET bytes == message.payload
    IN  IF bytes = << >>
        THEN [outcome |-> "ok", log |-> None,
              calls |-> <<OnMessage(plug_name, message, None)>>]
        ELSE IF IsSome(from_slice(bytes))
        THEN LET json == to_string(Unwrap(from_slice(bytes)))
             IN  IF IsSome(json)
                 THEN [outcome |-> "ok", log |-> None,
                       calls |-> <<OnMessage(plug_name, message, json)>>]
                 ELSE [outcome |-> "panic", log |-> None, calls |-> << >>]
        ELSE [outcome |-> "ok",
              log |-> Some(IF from_utf8_ok(bytes) THEN "warn" ELSE "error"),
              calls |-> <<OnMessage(plug_name, message, None)>>]

\* receive up to the loop: the input plug is built and subscribed; expect
\* panics when build fails.
ReceiveStart(options, subscribe_ok) ==
    /\ Running
    /\ IsSome(agent)
    /\ tool.pc = "off"
    /\ LET r == opt_build(receive_input_def(options), Unwrap(agent),
                          subscribe_ok)
       IN  /\ def' = IF r.ok THEN r.def ELSE def
           /\ subscribed' = IF r.ok THEN Some(r.calls[1].topic) ELSE subscribed
           /\ tool' = IF r.ok THEN [pc |-> "poll", did_work |-> FALSE] ELSE tool
           /\ lastOp' = [Op("receive_start", IF r.ok THEN "ok" ELSE "panic",
                             r.def, r.calls)
                         EXCEPT !.args = Some(<<options>>)]
    /\ UNCHANGED <<agent, conn, receiver, builder, chain, order>>

\* One evaluation of the while condition: check_messages is called; a
\* message is handled and sets did_work; None ends the pass, which is
\* followed by the sleep when the pass did no work.
ReceivePoll ==
    /\ Running
    /\ tool.pc = "poll"
    /\ LET r == check_messages(receiver)
       IN  /\ receiver' = r.receiver
           /\ order' = note_returned(order, r.ret)
           /\ IF IsSome(r.ret)
              THEN LET h == receive_message(Unwrap(r.ret)[1], Unwrap(r.ret)[2])
                   IN  /\ tool' = [tool EXCEPT !.did_work = TRUE]
                       /\ lastOp' = [Op("receive_poll", h.outcome, r.ret,
                                         h.calls)
                                     EXCEPT !.taken = r.taken, !.log = h.log]
              ELSE /\ tool' = [pc |-> IF tool.did_work THEN "poll" ELSE "sleep",
                               did_work |-> FALSE]
                   /\ lastOp' = [Op("receive_poll", "ok", None, << >>)
                                 EXCEPT !.taken = r.taken]
    /\ UNCHANGED <<agent, conn, subscribed, builder, chain, def>>

\* The sleep of 100 microseconds ends and the next pass begins.
ReceiveWake ==
    /\ Running
    /\ tool.pc = "sleep"
    /\ tool' = [pc |-> "poll", did_work |-> FALSE]
    /\ lastOp' = Op("receive_sleep", "ok", None, << >>)
    /\ UNCHANGED <<agent, conn, subscribed, receiver, builder, chain, def, order>>

\* The options given to the tool: each of the four absent or present.
ReceiveOptions ==
    [subscribe_topic : { None, Some(<<"a", "/", "b", "/", "p">>) },
     subscribe_role : { None, Some(<<"a">>) },
     subscribe_id : { None, Some(<<"b">>) },
     subscribe_plug : { None, Some(<<"p">>) }]

\* The payloads delivered to the tool: empty; the integer 1; a map with a
\* nil key; a bin 8 header with no data, which is the UTF-8 of one
\* character; the byte 0xc1, which is neither MessagePack nor UTF-8.
RecvPayloads == { << >>, <<1>>, <<129, 192, 1>>, <<196, 128>>, <<193>> }

RecvTopics == { <<"a", "/", "b", "/", "p">>, <<"w">> }

Sources == { "lib", "plugs" }

PayloadArgs == { None, Some(<<1>>) }

Next ==
    \/ \E role \in AgentRoles, id \in AgentIds, auto \in AutoConnectArgs,
          ok \in BOOLEAN :
           AgentBuild(role, id, auto, ok)
    \/ \E ok \in BOOLEAN : Connect(ok)
    \/ ConnectionLost
    \/ \E topic \in InboundTopics, payload \in Payloads : Deliver(topic, payload)
    \/ \E src \in Sources, name \in PlugNames : CreateInput(src, name)
    \/ \E src \in Sources, name \in PlugNames : CreateOutput(src, name)
    \/ \E qos \in QosArgs : Qos(qos)
    \/ \E role \in RoleArgs : Role(role)
    \/ \E id \in IdArgs : Id(id)
    \/ \E t \in TopicArgs : Topic(t)
    \/ \E r \in BOOLEAN : Retain(r)
    \/ \E ok \in ClientAnswers : Build(ok)
    \/ CheckMessages
    \/ IsConnected
    \/ \E payload \in PayloadArgs, ok \in ClientAnswers : Publish(payload, ok)
    \/ \E data \in Values, ok \in ClientAnswers : EncodeAndPublish(data, ok)
    \/ \E role \in SetRoleArgs : SetRole(role)
    \/ \E id \in SetIdArgs : SetId(id)
    \/ \E w \in CommonMutWrites : CommonMut(w[1], w[2])
    \/ Accessors
    \/ \E role \in TopicParts, id \in TopicParts, plug_name \in TopicParts :
           BuildTopic(role, id, plug_name)
    \/ ParseTopic
    \/ \E topic \in RawTopics, payload \in RawPayloads, qos \in RawQosArgs,
          retained \in RawRetainedArgs, ok \in ClientAnswers :
           PublishRaw(topic, payload, qos, retained, ok)
    \/ \E options \in ReceiveOptions, ok \in ClientAnswers :
           ReceiveStart(options, ok)
    \/ ReceivePoll
    \/ ReceiveWake
    \/ \E topic \in InboundTopics : Enqueue(topic)

Spec == Init /\ [][Next]_vars

\* The builder chains: every builder method, build, and the connection's life.
NextBuilder ==
    \/ \E role \in AgentRoles, id \in AgentIds, auto \in AutoConnectArgs,
          ok \in BOOLEAN :
           AgentBuild(role, id, auto, ok)
    \/ \E ok \in BOOLEAN : Connect(ok)
    \/ ConnectionLost
    \/ \E src \in Sources, name \in PlugNames : CreateInput(src, name)
    \/ \E src \in Sources, name \in PlugNames : CreateOutput(src, name)
    \/ \E qos \in QosArgs : Qos(qos)
    \/ \E role \in RoleArgs : Role(role)
    \/ \E id \in IdArgs : Id(id)
    \/ \E t \in TopicArgs : Topic(t)
    \/ \E r \in BOOLEAN : Retain(r)
    \/ \E ok \in ClientAnswers : Build(ok)
    \/ CheckMessages

SpecBuilder == Init /\ [][NextBuilder]_vars

\* The runtime: the inbound queue and publishing, with the builder chains
\* that subscribe (create, topic, build).
NextRuntime ==
    \/ \E role \in AgentRoles, id \in AgentIds, auto \in AutoConnectArgs,
          ok \in BOOLEAN :
           AgentBuild(role, id, auto, ok)
    \/ \E ok \in BOOLEAN : Connect(ok)
    \/ ConnectionLost
    \/ \E topic \in InboundTopics, payload \in Payloads : Deliver(topic, payload)
    \/ \E src \in Sources, name \in PlugNames : CreateInput(src, name)
    \/ \E src \in Sources, name \in PlugNames : CreateOutput(src, name)
    \/ \E t \in TopicArgs : Topic(t)
    \/ \E ok \in ClientAnswers : Build(ok)
    \/ CheckMessages
    \/ IsConnected
    \/ \E payload \in PayloadArgs, ok \in ClientAnswers : Publish(payload, ok)
    \/ \E data \in Values, ok \in ClientAnswers : EncodeAndPublish(data, ok)

SpecRuntime == Init /\ [][NextRuntime]_vars

\* Publishing: output and input definitions of every qos, retain flag and
\* topic the builders produce, and the two publish operations on them.
NextPublish ==
    \/ \E role \in AgentRoles, id \in AgentIds, auto \in AutoConnectArgs,
          ok \in BOOLEAN :
           AgentBuild(role, id, auto, ok)
    \/ \E ok \in BOOLEAN : Connect(ok)
    \/ \E src \in Sources, name \in PlugNames : CreateInput(src, name)
    \/ \E src \in Sources, name \in PlugNames : CreateOutput(src, name)
    \/ \E qos \in QosArgs : Qos(qos)
    \/ \E t \in TopicArgs : Topic(t)
    \/ \E r \in BOOLEAN : Retain(r)
    \/ \E ok \in ClientAnswers : Build(ok)
    \/ \E payload \in PayloadArgs, ok \in ClientAnswers : Publish(payload, ok)
    \/ \E data \in Values, ok \in ClientAnswers : EncodeAndPublish(data, ok)

SpecPublish == Init /\ [][NextPublish]_vars

\* The inbound queue with every message stamped on arrival: the client's
\* thread queues messages and lost connections while the caller checks.
NextOrder ==
    \/ \E role \in AgentRoles, id \in AgentIds, auto \in AutoConnectArgs,
          ok \in BOOLEAN :
           AgentBuild(role, id, auto, ok)
    \/ \E ok \in BOOLEAN : Connect(ok)
    \/ ConnectionLost
    \/ \E topic \in InboundTopics : Enqueue(topic)
    \/ \E src \in Sources, name \in PlugNames : CreateInput(src, name)
    \/ \E t \in TopicArgs : Topic(t)
    \/ \E ok \in ClientAnswers : Build(ok)
    \/ CheckMessages

SpecOrder == Init /\ [][NextOrder]_vars

\* The receive tool on an agent built for it, with the client's background
\* thread filling the queue.
NextReceive ==
    \/ \E role \in AgentRoles, id \in AgentIds, auto \in AutoConnectArgs,
          ok \in BOOLEAN :
           AgentBuild(role, id, auto, ok)
    \/ \E ok \in BOOLEAN : tool.pc = "off" /\ Connect(ok)
    \/ ConnectionLost
    \/ \E options \in ReceiveOptions, ok \in ClientAnswers :
           ReceiveStart(options, ok)
    \/ \E topic \in RecvTopics, payload \in RecvPayloads : Deliver(topic, payload)
    \/ ReceivePoll
    \/ ReceiveWake

SpecReceive == Init /\ [][NextReceive]_vars

\* publish_raw on an agent that holds no definition at all.
NextRaw ==
    \/ \E role \in AgentRoles, id \in AgentIds, auto \in AutoConnectArgs,
          ok \in BOOLEAN :
           AgentBuild(role, id, auto, ok)
    \/ \E ok \in BOOLEAN : Connect(ok)
    \/ ConnectionLost
    \/ CheckMessages
    \/ \E topic \in RawTopics, payload \in RawPayloads, qos \in RawQosArgs,
          retained \in RawRetainedArgs, ok \in ClientAnswers :
           PublishRaw(topic, payload, qos, retained, ok)

SpecRaw == Init /\ [][NextRaw]_vars

\* The topic functions alone: build_topic on every triple of parts, then the
\* parse functions on its result.
NextTopic ==
    \/ \E role \in TopicParts, id \in TopicParts, plug_name \in TopicParts :
           BuildTopic(role, id, plug_name)
    \/ ParseTopic

SpecTopic == Init /\ [][NextTopic]_vars

\* A built definition in its holder's hands: every operation that takes or
\* gives access to it, and the agent operations around it.
NextDefinition ==
    \/ \E role \in AgentRoles, id \in AgentIds, auto \in AutoConnectArgs,
          ok \in BOOLEAN :
           AgentBuild(role, id, auto, ok)
    \/ \E ok \in BOOLEAN : Connect(ok)
    \/ ConnectionLost
    \/ \E topic \in InboundTopics, payload \in Payloads : Deliver(topic, payload)
    \/ \E role \in SetRoleArgs : SetRole(role)
    \/ \E id \in SetIdArgs : SetId(id)
    \/ \E src \in Sources, name \in PlugNames : CreateInput(src, name)
    \/ \E src \in Sources, name \in PlugNames : CreateOutput(src, name)
    \/ \E ok \in ClientAnswers : Build(ok)
    \/ CheckMessages
    \/ \E payload \in PayloadArgs, ok \in ClientAnswers : Publish(payload, ok)
    \/ \E data \in Values, ok \in ClientAnswers : EncodeAndPublish(data, ok)
    \/ \E w \in CommonMutWrites : CommonMut(w[1], w[2])
    \/ Accessors

SpecDefinition == Init /\ [][NextDefinition]_vars

(***************************************************************************)
(* Properties                                                              *)
(***************************************************************************)
\* A step that is a call of build() on the builder in progress.
BuildStep == lastOp'.op = "build" /\ IsSome(builder)

BuildsInput == BuildStep /\ Unwrap(builder).kind = "InputPlugOptions"

BuildsOutput == BuildStep /\ Unwrap(builder).kind = "OutputPlugOptions"

NoOverrides(b) ==
    /\ b.override_topic = None
    /\ b.override_role = None
    /\ b.override_id = None
    /\ b.qos = None

\* C1: when the chain holds at least one topic(t) call, build() uses the most
\* recent t as the final topic, for the subscribe call it issues and for the
\* definition it returns, whatever role, id and qos calls came before or
\* after it.
C1_TopicOverrideWins ==
    [][ (BuildStep /\ IsSome(chain.topic)) =>
            /\ \A i \in 1..Len(lastOp'.calls) :
                   lastOp'.calls[i].topic = Unwrap(chain.topic)
            /\ lastOp'.outcome = "ok" =>
                   /\ IsSome(lastOp'.ret)
                   /\ Unwrap(lastOp'.ret).topic = Unwrap(chain.topic) ]_vars

\* C1 witness: a definition built from a chain in which role or id was called
\* after topic(t), with topic t.
C1_Witness ==
    /\ lastOp.op = "build"
    /\ lastOp.outcome = "ok"
    /\ chain.shadowed
    /\ IsSome(def)
    /\ Unwrap(def).topic = Unwrap(chain.topic)

\* C2: a retain call on an input builder never returns a builder, so no input
\* builder and no input definition ever comes out of a chain with a retain
\* call.
C2_RetainOnInputAborts ==
    chain.retain =>
        /\ ~(IsSome(builder) /\ Unwrap(builder).kind = "InputPlugOptions")
        /\ ~(IsSome(def) /\ IsInputDef(Unwrap(def)))

\* C6: build() of an input builder named P without topic, role, id or qos
\* override issues exactly one subscribe call, topic "+/+/P" and qos 1, and
\* when the client answers Ok returns the input definition (P, "+/+/P", 1).
C6_DefaultInputBuild ==
    [][ (BuildsInput /\ NoOverrides(Unwrap(builder))) =>
            LET P == Unwrap(builder).plug_name
                T == <<"+", "/", "+", "/">> \o P
            IN  /\ Len(lastOp'.calls) = 1
                /\ lastOp'.calls[1].call = "subscribe"
                /\ lastOp'.calls[1].topic = T
                /\ lastOp'.calls[1].qos = 1
                /\ lastOp'.calls[1].ok =>
                       /\ lastOp'.outcome = "ok"
                       /\ IsSome(lastOp'.ret)
                       /\ IsInputDef(Unwrap(lastOp'.ret))
                       /\ Unwrap(lastOp'.ret).name = P
                       /\ Unwrap(lastOp'.ret).topic = T
                       /\ Unwrap(lastOp'.ret).qos = 1
                       /\ def' = lastOp'.ret ]_vars

\* C6 witness: an input definition built with the default topic and qos.
C6_Witness ==
    /\ lastOp.op = "build"
    /\ lastOp.outcome = "ok"
    /\ chain.topic = None
    /\ IsSome(def)
    /\ IsInputDef(Unwrap(def))
    /\ Unwrap(def).topic = <<"+", "/", "+", "/", "p">>
    /\ Unwrap(def).qos = 1

\* C7: build() of an output builder named P without overrides, on an agent
\* of role R and id I, returns the output definition with topic "R/I/P"
\* (without wildcard), qos 1 and retain false; an agent built without an id
\* has the id "any".
C7_DefaultOutputBuild ==
    [][ /\ (BuildsOutput /\ NoOverrides(Unwrap(builder)) /\ ~chain.retain) =>
               LET P == Unwrap(builder).plug_name
                   a == Unwrap(agent)
                   T == a.role \o <<"/">> \o a.id \o <<"/">> \o P
               IN  /\ lastOp'.outcome = "ok"
                   /\ IsSome(lastOp'.ret)
                   /\ IsOutputDef(Unwrap(lastOp'.ret))
                   /\ Unwrap(lastOp'.ret).name = P
                   /\ Unwrap(lastOp'.ret).topic = T
                   /\ \A i \in 1..Len(T) : T[i] \notin {"+", "#"}
                   /\ Unwrap(lastOp'.ret).qos = 1
                   /\ Unwrap(lastOp'.ret).retain = Some(FALSE)
                   /\ def' = lastOp'.ret
        /\ (lastOp'.op = "agent_build" /\ agent = None /\ IsSome(agent')
               /\ Unwrap(lastOp'.args)[1] = None) =>
               Unwrap(agent').id = <<"a", "n", "y">> ]_vars

\* C7 witness: an output definition built without overrides on an agent that
\* was built without an id.
C7_Witness ==
    /\ lastOp.op = "build"
    /\ IsSome(def)
    /\ IsOutputDef(Unwrap(def))
    /\ Unwrap(def).topic = <<"r", "/", "a", "n", "y", "/", "p">>
    /\ Unwrap(def).qos = 1
    /\ Unwrap(def).retain = Some(FALSE)

\* C8: build() of an output builder calls the client not at all and returns
\* a definition, whatever the connection's state and the builder's
\* configuration; the client's state and the queue are as before.
C8_OutputBuildNoTransport ==
    [][ BuildsOutput =>
            /\ lastOp'.calls = << >>
            /\ lastOp'.outcome = "ok"
            /\ IsSome(lastOp'.ret)
            /\ IsOutputDef(Unwrap(lastOp'.ret))
            /\ def' = lastOp'.ret
            /\ conn' = conn
            /\ subscribed' = subscribed
            /\ receiver' = receiver ]_vars

\* C8 witness: an output definition built after the connection was lost.
C8_Witness ==
    /\ lastOp.op = "build"
    /\ lastOp.outcome = "ok"
    /\ IsSome(def)
    /\ IsOutputDef(Unwrap(def))
    /\ conn = "disconnected"

\* C9: build() of an input builder whose subscribe call the client answers
\* with an error returns an error and no definition; an input definition
\* comes into being only by a build() whose subscribe call was answered Ok.
C9_SubscribeFailureNoDefinition ==
    [][ /\ BuildsInput =>
               /\ Len(lastOp'.calls) = 1
               /\ lastOp'.calls[1].call = "subscribe"
               /\ ~lastOp'.calls[1].ok =>
                      /\ lastOp'.outcome = "err"
                      /\ lastOp'.ret = None
                      /\ def' = def
        /\ (IsSome(def') /\ IsInputDef(Unwrap(def')) /\ def' # def) =>
               /\ BuildsInput
               /\ lastOp'.outcome = "ok"
               /\ lastOp'.calls[1].ok
               /\ lastOp'.calls[1].topic = Unwrap(def').topic ]_vars

\* C9 witness: a build() that failed on a connected client's subscribe error
\* and left the caller without a definition.
C9_Witness ==
    /\ lastOp.op = "build"
    /\ lastOp.outcome = "err"
    /\ Len(lastOp.calls) = 1
    /\ ~lastOp.calls[1].ok
    /\ def = None
    /\ conn = "connected"

\* A step that is a call of check_messages.
CheckStep == lastOp'.op = "check_messages"

\* C3 as stated: a call takes at most one entry off the queue, and on an
\* empty queue returns None and leaves the queue as it is.
C3_OneEntryPerCall ==
    [][ CheckStep =>
            /\ Len(receiver) <= Len(receiver') + 1
            /\ receiver = << >> =>
                   (lastOp'.ret = None /\ receiver' = << >>) ]_vars

\* C3 as amended: a call takes off the queue the None entries at its head and
\* at most one message, the first one; it takes exactly one entry when the
\* head is a message, at least one when the queue is not empty, and on an
\* empty queue it returns None and leaves the queue as it is.
C3_OneMessagePerCall ==
    [][ CheckStep =>
            /\ \E n \in 0..Len(receiver) :
                   /\ receiver' = SubSeq(receiver, n + 1, Len(receiver))
                   /\ \A i \in 1..(n - 1) : receiver[i] = None
                   /\ receiver # << >> => n >= 1
                   /\ (receiver # << >> /\ IsSome(Head(receiver))) => n = 1
                   /\ (n >= 1 /\ receiver[n] = None) => receiver' = << >>
            /\ receiver = << >> =>
                   (lastOp'.ret = None /\ receiver' = << >>) ]_vars

\* C3 witness: a call that took two entries, a None and the message it
\* returned.
C3_Witness ==
    /\ lastOp.op = "check_messages"
    /\ lastOp.taken = 2
    /\ IsSome(lastOp.ret)

\* C4: every message a call takes off the queue is returned by that call, so
\* None is returned only when the queue held no message.
C4_NoMessageLost ==
    [][ CheckStep =>
            /\ \A i \in 1..(Len(receiver) - Len(receiver')) :
                   IsSome(receiver[i]) =>
                       /\ IsSome(lastOp'.ret)
                       /\ Unwrap(lastOp'.ret)[2] = Unwrap(receiver[i])
            /\ lastOp'.ret = None =>
                   \A i \in 1..Len(receiver) : receiver[i] = None ]_vars

\* A three-part topic: exactly three segments, none of them empty.
IsThreePart(t) ==
    LET parts == split(t)
    IN  Len(parts) = 3 /\ \A i \in 1..3 : parts[i] # << >>

\* C5: the message a call takes is returned with a plug name exactly when its
\* topic has exactly three non-empty segments, and the name is the third.
C5_NamedIffThreePart ==
    [][ CheckStep =>
            \A k \in 1..Len(receiver) :
                (IsSome(receiver[k]) /\ \A j \in 1..(k - 1) : receiver[j] = None) =>
                    LET t == Unwrap(receiver[k]).topic
                    IN  /\ IsSome(lastOp'.ret) <=> IsThreePart(t)
                        /\ IsSome(lastOp'.ret) =>
                               Unwrap(lastOp'.ret)[1] = split(t)[3] ]_vars

\* C10: publish and encode_and_publish with an input definition hand nothing
\* to the client: publish panics, encode_and_publish panics or fails to
\* encode; every message handed to the client carries the topic of an output
\* definition.
C10_PublishInputAborts ==
    [][ /\ (lastOp'.op \in {"publish", "encode_and_publish"}
               /\ IsSome(def) /\ IsInputDef(Unwrap(def))) =>
               /\ lastOp'.calls = << >>
               /\ lastOp'.op = "publish" => lastOp'.outcome = "panic"
               /\ lastOp'.op = "encode_and_publish" =>
                      lastOp'.outcome \in {"panic", "encode_err"}
        /\ (lastOp'.op \in {"publish", "encode_and_publish"}) =>
               \A i \in 1..Len(lastOp'.calls) :
                   lastOp'.calls[i].call = "publish" =>
                       /\ IsSome(def)
                       /\ IsOutputDef(Unwrap(def))
                       /\ lastOp'.calls[i].topic = Unwrap(def).topic ]_vars

\* C10 witness: encode_and_publish encoded its value and panicked in publish
\* on an input definition.
C10_Witness ==
    /\ lastOp.op = "encode_and_publish"
    /\ lastOp.outcome = "panic"
    /\ lastOp.calls = << >>
    /\ IsSome(def)
    /\ IsInputDef(Unwrap(def))

\* A step that is a call of publish() with an output definition.
PublishesOutput ==
    lastOp'.op = "publish" /\ IsSome(def) /\ IsOutputDef(Unwrap(def))

\* C11: publish() with an output definition hands exactly one message to the
\* client's publish, carrying the definition's topic, qos and retain flag and
\* the given payload, or an empty payload when none is given; it returns Ok
\* exactly when the client accepted the message, and an error otherwise.
C11_PublishOneMessage ==
    [][ PublishesOutput =>
            LET d == Unwrap(def)
                payload == Unwrap(lastOp'.args)[1]
            IN  /\ Len(lastOp'.calls) = 1
                /\ lastOp'.calls[1].call = "publish"
                /\ lastOp'.calls[1].topic = d.topic
                /\ lastOp'.calls[1].qos = d.qos
                /\ lastOp'.calls[1].retained = Unwrap(d.retain)
                /\ lastOp'.calls[1].payload =
                       (IF payload = None THEN << >> ELSE payload[1])
                /\ lastOp'.outcome \in {"ok", "err"}
                /\ lastOp'.outcome = "ok" <=> lastOp'.calls[1].ok ]_vars

\* A failed publish of no payload on a retained output definition of qos 2
\* with an overridden topic.
C11_Witness ==
    /\ lastOp.op = "publish"
    /\ lastOp.outcome = "err"
    /\ lastOp.args = Some(<<None>>)
    /\ IsSome(def)
    /\ IsOutputDef(Unwrap(def))
    /\ Unwrap(def).qos = 2
    /\ Unwrap(def).retain = Some(TRUE)
    /\ Unwrap(def).topic = <<"#">>
    /\ Len(lastOp.calls) = 1
    /\ lastOp.calls[1].payload = << >>
    /\ conn = "connected"

\* C12: encode_and_publish reports a failed encoding apart from a failed
\* publish: when the encoding fails the client's publish is never called and
\* the error is the encoding error; a message goes to the client only after a
\* successful encoding, carrying the encoded bytes, and the client's refusal
\* is then reported as the publish error.
C12_EncodeThenPublish ==
    [][ lastOp'.op = "encode_and_publish" =>
            LET data == Unwrap(lastOp'.args)[1]
            IN  /\ ~data.encodable =>
                       /\ lastOp'.calls = << >>
                       /\ lastOp'.outcome = "encode_err"
                /\ lastOp'.calls # << >> =>
                       /\ data.encodable
                       /\ Len(lastOp'.calls) = 1
                       /\ lastOp'.calls[1].call = "publish"
                       /\ lastOp'.calls[1].payload = data.bytes
                       /\ lastOp'.outcome =
                              (IF lastOp'.calls[1].ok THEN "ok" ELSE "err")
                /\ lastOp'.outcome = "encode_err" => ~data.encodable
                /\ (data.encodable /\ IsOutputDef(Unwrap(def))) =>
                       lastOp'.calls # << >> ]_vars

\* A failed encoding on an output definition of a connected agent: nothing
\* was handed to the client.
C12_Witness ==
    /\ lastOp.op = "encode_and_publish"
    /\ IsSome(def)
    /\ IsOutputDef(Unwrap(def))
    /\ conn = "connected"
    /\ lastOp.outcome = "encode_err"
    /\ lastOp.calls = << >>

\* The number of connect calls among the client calls of a step.
ConnectCalls(calls) ==
    Cardinality({ i \in 1..Len(calls) : calls[i].call = "connect" })

\* A step that is a call of connect(), by the caller or by the options
\* builder's build() with auto_connect.
ConnectStep ==
    \/ lastOp'.op = "connect"
    \/ lastOp'.op = "agent_build" /\ Unwrap(lastOp'.args)[2]

\* C13: the client is asked to connect only inside connect(), exactly once
\* per call of connect(), made directly or by the options builder's build()
\* with auto_connect; a refused connect is returned as the error at once and
\* leaves the connection as it was; no other step (publish, check_messages,
\* a plug build, is_connected, a lost connection) asks the client to connect
\* or makes the agent connected.
C13_ConnectOnlyInConnect ==
    [][ /\ ConnectCalls(lastOp'.calls) = (IF ConnectStep THEN 1 ELSE 0)
        /\ ConnectStep =>
               /\ Len(lastOp'.calls) = 1
               /\ lastOp'.outcome = (IF lastOp'.calls[1].ok THEN "ok" ELSE "err")
               /\ ~lastOp'.calls[1].ok => conn' = conn
        /\ (conn # "connected" /\ conn' = "connected") =>
               /\ ConnectStep
               /\ lastOp'.calls = <<ConnectCall(TRUE)>> ]_vars

\* After a lost connection a publish was refused by the client and the agent
\* is still disconnected.
C13_Witness ==
    /\ conn = "disconnected"
    /\ lastOp.op = "publish"
    /\ lastOp.outcome = "err"
    /\ lastOp.calls # << >>
    /\ ConnectCalls(lastOp.calls) = 0

\* C20: the options builder's build() connects by default: with auto_connect
\* true (its value when auto_connect() was not called) it calls connect
\* exactly once and returns an agent only when the connect succeeded, the
\* failure being returned as the error; with auto_connect false it calls
\* nothing on the client and returns an agent that is not connected, and
\* stays so until connect() is called.
C20_AutoConnectByDefault ==
    [][ /\ lastOp'.op = "agent_build" =>
            LET auto == Unwrap(lastOp'.args)[3]
                enabled == Unwrap(lastOp'.args)[2]
            IN  /\ enabled = (IF auto = None THEN TRUE ELSE auto[1])
                /\ enabled =>
                       /\ lastOp'.calls \in {<<ConnectCall(TRUE)>>,
                                              <<ConnectCall(FALSE)>>}
                       /\ IsSome(agent') <=> lastOp'.calls[1].ok
                       /\ lastOp'.calls[1].ok =>
                              lastOp'.outcome = "ok" /\ conn' = "connected"
                       /\ ~lastOp'.calls[1].ok =>
                              lastOp'.outcome = "err" /\ conn' # "connected"
                /\ ~enabled =>
                       /\ lastOp'.calls = << >>
                       /\ lastOp'.outcome = "ok"
                       /\ IsSome(agent')
                       /\ conn' = "constructed"
        /\ (conn = "constructed" /\ conn' # "constructed") =>
               lastOp'.op \in {"connect", "agent_build"} ]_vars

\* A default build whose connect was refused: an error and no agent.
C20_Witness ==
    /\ lastOp.op = "agent_build"
    /\ Unwrap(lastOp.args)[3] = None
    /\ lastOp.calls = <<ConnectCall(FALSE)>>
    /\ lastOp.outcome = "err"
    /\ agent = None

SlashFree(part) == \A i \in 1..Len(part) : part[i] # Slash

\* C15: for every role, id and plug name free of "/", parsing the topic
\* build_topic makes of them gives back the role from the first segment, the
\* id from the second and the plug name from the third.
C15_BuildParseRoundTrip ==
    lastOp.op = "parse_topic" =>
        LET role == Unwrap(lastOp.args)[1]
            id == Unwrap(lastOp.args)[2]
            plug_name == Unwrap(lastOp.args)[3]
        IN  (SlashFree(role) /\ SlashFree(id) /\ SlashFree(plug_name)) =>
                lastOp.ret = Some(<<Some(role), Some(id), Some(plug_name)>>)

\* The topic of role "a", an empty id and plug name "aa" has been parsed
\* back into its parts.
C15_Witness ==
    /\ lastOp.op = "parse_topic"
    /\ lastOp.args = Some(<< <<"a">>, << >>, <<"a", "a">> >>)
    /\ lastOp.ret = Some(<< Some(<<"a">>), Some(<< >>), Some(<<"a", "a">>) >>)

\* A step that is a call of topic(t) giving the chain a new latest override.
TopicStep ==
    lastOp'.op = "chain" /\ IsSome(builder) /\ chain'.topic # chain.topic

\* C16: a topic override is never rejected: topic(t) returns the builder with
\* exactly t stored, for every t, "#" included, and a t that fails the
\* three-part validation only gets a warning logged; build() then uses
\* exactly t as the definition's topic and, for an input, as the topic of its
\* one subscribe call, and fails only when the client refuses that call.
C16_TopicNeverRejected ==
    [][ /\ TopicStep =>
               LET t == Unwrap(chain'.topic)
               IN  /\ lastOp'.outcome = "ok"
                   /\ IsSome(builder')
                   /\ Unwrap(builder').override_topic = Some(t)
                   /\ Unwrap(builder).src = "plugs" =>
                          lastOp'.log =
                              Some(IF IsThreePart(t) THEN "info" ELSE "warn")
        /\ (BuildStep /\ IsSome(Unwrap(builder).override_topic)) =>
               LET t == Unwrap(Unwrap(builder).override_topic)
               IN  /\ BuildsInput =>
                          /\ Len(lastOp'.calls) = 1
                          /\ lastOp'.calls[1].call = "subscribe"
                          /\ lastOp'.calls[1].topic = t
                          /\ lastOp'.outcome =
                                 (IF lastOp'.calls[1].ok THEN "ok" ELSE "err")
                   /\ BuildsOutput => lastOp'.outcome = "ok"
                   /\ lastOp'.outcome = "ok" =>
                          /\ def' = lastOp'.ret
                          /\ Unwrap(def').topic = t ]_vars

\* An input definition built with the override "#": subscribed to "#" and
\* carrying "#" as its topic.
C16_Witness ==
    /\ lastOp.op = "build"
    /\ lastOp.outcome = "ok"
    /\ IsSome(def)
    /\ IsInputDef(Unwrap(def))
    /\ Unwrap(def).topic = <<"#">>
    /\ Len(lastOp.calls) = 1
    /\ lastOp.calls[1].topic = <<"#">>
    /\ subscribed = Some(<<"#">>)

\* C19: publish_raw goes past the plug definitions: for any topic it hands
\* exactly one message of that topic and payload to the client's publish,
\* with qos 1 when none is given and retain false when none is given, and it
\* returns Ok exactly when the client accepted the message, an error
\* otherwise, as publish does.
C19_PublishRawOneMessage ==
    [][ lastOp'.op = "publish_raw" =>
            LET topic == Unwrap(lastOp'.args)[1]
                payload == Unwrap(lastOp'.args)[2]
                qos == Unwrap(lastOp'.args)[3]
                retained == Unwrap(lastOp'.args)[4]
            IN  /\ Len(lastOp'.calls) = 1
                /\ lastOp'.calls[1].call = "publish"
                /\ lastOp'.calls[1].topic = topic
                /\ lastOp'.calls[1].payload = payload
                /\ lastOp'.calls[1].qos = (IF qos = None THEN 1 ELSE qos[1])
                /\ lastOp'.calls[1].retained =
                       (IF retained = None THEN FALSE ELSE retained[1])
                /\ lastOp'.outcome \in {"ok", "err"}
                /\ lastOp'.outcome = "ok" <=> lastOp'.calls[1].ok ]_vars

\* A one-segment topic published with neither qos nor retain given, by an
\* agent that holds no definition.
C19_Witness ==
    /\ lastOp.op = "publish_raw"
    /\ lastOp.outcome = "ok"
    /\ def = None
    /\ lastOp.args = Some(<< <<"w">>, <<1>>, None, None >>)
    /\ Len(lastOp.calls) = 1
    /\ lastOp.calls[1].qos = 1
    /\ lastOp.calls[1].retained = FALSE

\* A fragment of the subscription, "+" when it is not supplied.
FragmentOrWildcard(fragment) == IF fragment = None THEN <<"+">> ELSE fragment[1]

\* C17: the receive tool's two selection modes exclude each other: with at
\* least one of the role, id and plug name fragments supplied, the
\* subscription is built from the fragments, a missing one being the
\* wildcard "+", and a custom topic is ignored; with no fragment supplied the
\* subscription is the custom topic, or "#" when there is none.
C17_ReceiveSelection ==
    [][ lastOp'.op = "receive_start" =>
            LET options == Unwrap(lastOp'.args)[1]
                fragments == \/ IsSome(options.subscribe_role)
                             \/ IsSome(options.subscribe_id)
                             \/ IsSome(options.subscribe_plug)
            IN  /\ Len(lastOp'.calls) = 1
                /\ lastOp'.calls[1].call = "subscribe"
                /\ lastOp'.calls[1].topic =
                       (IF fragments
                        THEN build_topic(
                                 FragmentOrWildcard(options.subscribe_role),
                                 FragmentOrWildcard(options.subscribe_id),
                                 FragmentOrWildcard(options.subscribe_plug))
                        ELSE IF options.subscribe_topic = None
                        THEN <<"#">>
                        ELSE options.subscribe_topic[1]) ]_vars

\* C18: in the receive loop every message check_messages returns causes
\* exactly one on_message callback and no panic, whether its payload is
\* empty, decodes, does not decode but is UTF-8, or is neither; the decoded
\* argument is present only when the payload is not empty and decoded.
C18_OneCallbackPerMessage ==
    [][ (lastOp'.op = "receive_poll" /\ IsSome(lastOp'.ret)) =>
            LET plug_name == Unwrap(lastOp'.ret)[1]
                message == Unwrap(lastOp'.ret)[2]
            IN  /\ lastOp'.outcome = "ok"
                /\ Len(lastOp'.calls) = 1
                /\ lastOp'.calls[1].call = "on_message"
                /\ lastOp'.calls[1].plug_name = plug_name
                /\ lastOp'.calls[1].message = message
                /\ IsSome(lastOp'.calls[1].decoded) =>
                       /\ message.payload # << >>
                       /\ IsSome(from_slice(message.payload)) ]_vars

\* C23: an output definition's default topic is a snapshot of the agent's
\* role and id at build time: set_role and set_id change the agent's role
\* and id and leave a definition built before them as it was, and build() of
\* an output builder without overrides uses the role and id the agent has at
\* that moment.
C23_TopicSnapshot ==
    [][ /\ lastOp'.op = "set_role" =>
               /\ Unwrap(agent').role = Unwrap(lastOp'.args)[1]
               /\ Unwrap(agent').id = Unwrap(agent).id
               /\ def' = def
        /\ lastOp'.op = "set_id" =>
               /\ Unwrap(agent').id = Unwrap(lastOp'.args)[1]
               /\ Unwrap(agent').role = Unwrap(agent).role
               /\ def' = def
        /\ (BuildsOutput /\ NoOverrides(Unwrap(builder))) =>
               /\ lastOp'.outcome = "ok"
               /\ def' = lastOp'.ret
               /\ Unwrap(def').topic =
                      build_topic(Unwrap(agent).role, Unwrap(agent).id,
                                  Unwrap(builder).plug_name) ]_vars

\* After set_id an output definition built under role "s" and the first id
\* still carries that id, which the agent no longer has.
C23_Witness ==
    /\ lastOp.op = "set_id"
    /\ Unwrap(agent) = [role |-> <<"s">>, id |-> <<"j">>]
    /\ IsSome(def)
    /\ IsOutputDef(Unwrap(def))
    /\ Unwrap(def).topic = build_topic(<<"s">>, <<"i">>, <<"p">>)

\* C21: the receive loop drains the whole backlog before idling: within a
\* pass it calls check_messages again after every message it gets; it goes
\* to sleep only from a check_messages that returned nothing, in a pass that
\* got no message, and then the queue holds no message; after a pass that
\* handled a message it polls again without sleeping.
C21_DrainBeforeSleep ==
    [][ /\ (lastOp'.op = "receive_poll" /\ IsSome(lastOp'.ret)) =>
               tool'.pc = "poll" /\ tool'.did_work
        /\ (lastOp'.op = "receive_poll" /\ lastOp'.ret = None
               /\ tool.did_work) =>
               tool'.pc = "poll"
        /\ (tool.pc # "sleep" /\ tool'.pc = "sleep") =>
               /\ lastOp'.op = "receive_poll"
               /\ lastOp'.ret = None
               /\ ~tool.did_work
               /\ \A i \in 1..Len(receiver') : receiver'[i] = None ]_vars

\* C22: check_messages returns messages in the order of their arrival and
\* none twice: whatever the interleaving of the client's thread queuing
\* messages and the caller's calls, a message it returns arrived after the
\* message returned before it.
C22_ArrivalOrder ==
    [][ (CheckStep /\ IsSome(lastOp'.ret) /\ order.arrived > 0) =>
            LET stamp == Unwrap(lastOp'.ret)[2].payload[1]
            IN  /\ stamp > order.returned
                /\ stamp <= order.arrived
                /\ order'.returned = stamp ]_vars

\* The third message to arrive has been returned while the fourth is still
\* queued.
C22_Witness ==
    /\ lastOp.op = "check_messages"
    /\ IsSome(lastOp.ret)
    /\ order.returned = 3
    /\ order.arrived = 4
    /\ Len(receiver) = 1
    /\ receiver[1] # None
====
